---- MODULE Spec2Model ----
(***************************************************************************)
(* A model of the FlappyGame component (src/unnamed/part_001), its         *)
(* constants (src/constants.ts) and the commentary service                 *)
(* (src/services/geminiService.ts).                                        *)
(*                                                                         *)
(* Units.  The source computes in floating point with GRAVITY = 0.4,       *)
(* JUMP_STRENGTH = -7.5 and PIPE_SPEED = 3.5.  Every length and velocity   *)
(* of the model is an integer number of TENTHS of a pixel, so that all the *)
(* arithmetic of the loop is exact: CANVAS_HEIGHT = 600 px is 6000.        *)
(* Angles are in units of 1/10000 radian.                                  *)
(*                                                                         *)
(* Scheduling.  One action is one browser task: an input event handler, a  *)
(* display frame (the requestAnimationFrame callbacks that are pending,    *)
(* in the order they were requested), or the arrival of a commentary       *)
(* response.  React state set during a task is committed, and the effects  *)
(* that depend on it re-run, before the next task starts; inside a task    *)
(* the closures keep the values of the render that created them.           *)
(***************************************************************************)
EXTENDS Integers, Sequences, FiniteSets, TLC

(* ---- src/constants.ts, in tenths of a pixel ---- *)
GRAVITY == 4
JUMP_STRENGTH == -75
PIPE_SPEED == 35
PIPE_SPAWN_RATE == 100
PIPE_GAP == 1600
PIPE_WIDTH == 600
BIRD_RADIUS == 180
BIRD_X == 1000
CANVAS_WIDTH == 8000
CANVAS_HEIGHT == 6000

(* ---- literals of the loop (part_001) ---- *)
minPipeHeight == 500
GroundBuffer == 1000
GroundHeight == 400
BobAmplitude == 100
QuarterPi == 7854

(* ---- bounds of the model ---- *)
\* the player presses during PLAYING only on frames that are a multiple of this
InputPeriod == 16
\* frames simulated in the first round
MaxFrame == 250
\* frames simulated in every later round
MaxReplayFrame == 40
\* rounds that may be finished before restarts stop
MaxRounds == 2
\* Math.random() is drawn from { k / RandomSteps : k \in RandomDraws }
RandomSteps == 1000
\* greatest score getGameFeedback is called with on its own
MaxScore == 22
\* calls of getGameFeedback made on its own
MaxCalls == 2

RandomDraws == {0, RandomSteps - 1}
BobOffsets == {-BobAmplitude, 0, BobAmplitude}

VARIABLES
    gameState,      \* useState<GameState>
    score,          \* useState: the score on display
    highScore,      \* useState
    aiFeedback,     \* useState: the commentary on display
    loadingAi,      \* useState
    birdRef,        \* useRef<Bird>: [y, velocity, rotation]
    pipesRef,       \* useRef<Pipe[]>: sequence of [x, topHeight, passed]
    frameCountRef,  \* useRef
    scoreRef,       \* useRef
    impulse,        \* the rAF callback requested by jump() in START is pending
    pending,        \* gameOver() calls suspended at their await: set of [id, score, round]
    apiKey,         \* process.env.API_KEY || '' (fixed for the life of the page)
    feedbackCalls,  \* history: number of getGameFeedback calls made
    roundsFinished, \* history: number of rounds that have ended
    bestFinal,      \* history: greatest final scoreRef of the finished rounds
    lastTick,       \* history: the gameState the most recent loop tick ran under
    rafQueue,       \* the animation frame callbacks requested and not yet run or
                    \* cancelled, in request order: fn is "loop" or "impulse", gs
                    \* the gameState the loop closure was created with, ref
                    \* whether reqRef.current holds the callback's handle
    mounted,        \* the component is mounted
    roundTicks,     \* history: PLAYING ticks the loop has run in the current round
    spawnCount,     \* history: pipes pushed in the current round
    sinceSpawn,     \* history: PLAYING ticks run since the last push, that tick
                    \* included, counted up to PIPE_SPAWN_RATE and across rounds
    serviceCalls,   \* history: number of ai.models.generateContent calls made
    promise         \* history: the getGameFeedback promise that settled last, with
                    \* the score, the service outcome and the round of its call

vars == <<gameState, score, highScore, aiFeedback, loadingAi, birdRef, pipesRef,
          frameCountRef, scoreRef, impulse, pending, apiKey, feedbackCalls,
          roundsFinished, bestFinal, lastTick, roundTicks, spawnCount, sinceSpawn,
          serviceCalls, promise, rafQueue, mounted>>

refs == <<birdRef, pipesRef, frameCountRef, scoreRef>>
history == <<feedbackCalls, roundsFinished, bestFinal, lastTick>>
service == <<serviceCalls, promise>>
counts == <<roundTicks, spawnCount, sinceSpawn>>
schedule == <<rafQueue, mounted>>

\* line 288 and line 291: requestAnimationFrame(loop), the handle kept in
\* reqRef.current; loop is the closure of the render with gameState gs
LoopCallback(gs) == [fn |-> "loop", gs |-> gs, ref |-> TRUE]

\* lines 76-78: requestAnimationFrame(() => velocity = JUMP_STRENGTH), the
\* handle dropped
ImpulseCallback == [fn |-> "impulse", gs |-> "NONE", ref |-> FALSE]

\* reqRef.current names none of the callbacks any more
Unreferenced(queue) == [i \in DOMAIN queue |-> [queue[i] EXCEPT !.ref = FALSE]]

\* requestAnimationFrame(cb); a kept handle overwrites reqRef.current
Request(queue, cb) == Append(IF cb.ref THEN Unreferenced(queue) ELSE queue, cb)

NotReferenced(cb) == ~cb.ref

\* lines 293-297: cancelAnimationFrame(reqRef.current)
Cancel(queue) == SelectSeq(queue, NotReferenced)

\* an effect that returns no cleanup
EffectRerunWithoutCleanup(queue, gs) == Request(queue, LoopCallback(gs))

\* lines 113-298 when a dependency changed: the cleanup of the previous run
\* (lines 293-297), then the new run's request (line 291)
EffectRerun(queue, gs) == Request(Cancel(queue), LoopCallback(gs))

\* no getGameFeedback promise has settled yet
NoPromise == [state |-> "none", value |-> "", score |-> 0, outcome |-> "none", round |-> 0]

Max(a, b) == IF a >= b THEN a ELSE b
Min(a, b) == IF a <= b THEN a ELSE b

\* resetGame: the bird it installs
InitialBird == [y |-> CANVAS_HEIGHT \div 2, velocity |-> 0, rotation |-> 0]

Init ==
    /\ gameState = "START"
    /\ score = 0
    /\ highScore = 0
    /\ aiFeedback = ""
    /\ loadingAi = FALSE
    /\ birdRef = InitialBird
    /\ pipesRef = <<>>
    /\ frameCountRef = 0
    /\ scoreRef = 0
    /\ impulse = FALSE
    /\ pending = {}
    /\ apiKey \in {"", "key"}
    /\ feedbackCalls = 0
    /\ roundsFinished = 0
    /\ bestFinal = 0
    /\ lastTick = "NONE"
    /\ rafQueue = <<LoopCallback("START")>>
    /\ mounted = TRUE
    /\ roundTicks = 0
    /\ spawnCount = 0
    /\ sinceSpawn = PIPE_SPAWN_RATE
    /\ serviceCalls = 0
    /\ promise = NoPromise


(* ---- geminiService.ts ---- *)
NoKeyMessage == "API Key missing. I can't judge you properly."
NoCommentMessage == "No comment."
ApiErrorMessage == "I'm speechless (API Error)."

\* what ai.models.generateContent can do: answer with a text, answer with an
\* empty text, or throw
ServiceOutcomes == {"text", "empty", "throws"}

\* response.text of an answer: the prompt names three score tiers
ResponseText(s, outcome) ==
    IF outcome = "empty" THEN ""
    ELSE IF s <= 5 THEN "roast"
    ELSE IF s <= 20 THEN "backhanded compliment"
    ELSE "praise"

\* the value without the `|| "No comment."` default
getGameFeedbackNoDefault(s, key, outcome) ==
    IF key = "" THEN NoKeyMessage
    ELSE IF outcome = "throws" THEN ApiErrorMessage
    ELSE ResponseText(s, outcome)

getGameFeedback(s, key, outcome) ==
    IF key = "" THEN NoKeyMessage
    ELSE IF outcome = "throws" THEN ApiErrorMessage
    ELSE IF ResponseText(s, outcome) = "" THEN NoCommentMessage
    ELSE ResponseText(s, outcome)

\* lines 8-10: the early return keeps the call away from the service
CallsService(key) == key # ""

\* line 24: the try block throws
Throws(key, outcome) == CallsService(key) /\ outcome = "throws"

\* a function whose catch block throws the error on
FeedbackPromiseUncaught(s, key, outcome) ==
    IF Throws(key, outcome)
    THEN [state |-> "rejected", value |-> ""]
    ELSE [state |-> "fulfilled", value |-> getGameFeedback(s, key, outcome)]

\* lines 6-34: the promise the async function returns.  Every statement that
\* can throw is inside the try block and the catch block returns a string, so
\* the promise is fulfilled on every path.
FeedbackPromise(s, key, outcome) ==
    [state |-> "fulfilled", value |-> getGameFeedback(s, key, outcome)]

\* the settled promise together with the call it answers
Settled(s, key, outcome, round) ==
    LET p == FeedbackPromise(s, key, outcome)
    IN [state |-> p.state, value |-> p.value, score |-> s,
        outcome |-> IF CallsService(key) THEN outcome ELSE "none", round |-> round]

(* ---- the loop's update logic, part_001 lines 120-181 ---- *)

\* line 126: rotation = min(PI/4, max(-PI/4, velocity * 0.1))
Rotation(v) == Min(QuarterPi, Max(-QuarterPi, v * 100))

\* the upper bound without the ground buffer
maxPipeHeightNoBuffer == CANVAS_HEIGHT - PIPE_GAP - minPipeHeight

\* lines 130-131
maxPipeHeight == CANVAS_HEIGHT - PIPE_GAP - minPipeHeight - GroundBuffer

\* line 132: floor(random * (max - min + 1)) + min, in whole pixels
randomHeight(k) ==
    (((k * ((maxPipeHeight - minPipeHeight) \div 10 + 1)) \div RandomSteps) * 10)
        + minPipeHeight

\* lines 134-138
NewPipe(k) == [x |-> CANVAS_WIDTH, topHeight |-> randomHeight(k), passed |-> FALSE]

\* a spawn test that lets the first tick of a round go
SpawnDueAfterFirst(frame) == frame > 0 /\ frame % PIPE_SPAWN_RATE = 0

\* line 129
SpawnDue(frame) == frame % PIPE_SPAWN_RATE = 0

\* the collision test without the lower pipe
PipeCollidesTopOnly(pipe, y) ==
    /\ BIRD_X + BIRD_RADIUS > pipe.x
    /\ BIRD_X - BIRD_RADIUS < pipe.x + PIPE_WIDTH
    /\ y - BIRD_RADIUS < pipe.topHeight

\* lines 147-155: the collision test of one pipe (already advanced) with the bird
PipeCollides(pipe, y) ==
    /\ BIRD_X + BIRD_RADIUS > pipe.x
    /\ BIRD_X - BIRD_RADIUS < pipe.x + PIPE_WIDTH
    /\ \/ y - BIRD_RADIUS < pipe.topHeight
       \/ y + BIRD_RADIUS > pipe.topHeight + PIPE_GAP

\* the score test without the passed flag
PipeScoresAgain(pipe) == pipe.x + PIPE_WIDTH < BIRD_X

\* line 161
PipeScores(pipe) == ~pipe.passed /\ pipe.x + PIPE_WIDTH < BIRD_X

\* line 143
Advance(pipe) == [pipe EXCEPT !.x = pipe.x - PIPE_SPEED]

\* lines 142-166: pipesRef.current.forEach, from pipe i on.  acc.calls is the
\* sequence of scoreRef values the gameOver() calls so far were made with.
RECURSIVE ForEachPipe(_, _, _, _)
ForEachPipe(pipes, i, y, acc) ==
    IF i > Len(pipes) THEN acc
    ELSE LET moved == Advance(pipes[i])
             calls == IF PipeCollides(moved, y)
                      THEN Append(acc.calls, acc.scoreRef)
                      ELSE acc.calls
             scored == PipeScores(moved)
         IN ForEachPipe(pipes, i + 1, y,
                [pipes |-> Append(acc.pipes,
                                  IF scored THEN [moved EXCEPT !.passed = TRUE] ELSE moved),
                 scoreRef |-> IF scored THEN acc.scoreRef + 1 ELSE acc.scoreRef,
                 calls |-> calls])

\* a filter that drops a pipe as it reaches the bird
OnScreenEarly(pipe) == pipe.x > BIRD_X

\* a filter that keeps a pipe one width longer
OnScreenLate(pipe) == pipe.x + PIPE_WIDTH > -PIPE_WIDTH

\* line 169
OnScreen(pipe) == pipe.x > -PIPE_WIDTH

\* line 172
GroundHit(y) == y + BIRD_RADIUS >= CANVAS_HEIGHT - GroundHeight

\* the clamp that forgets the bird's radius
GroundYNoRadius == CANVAS_HEIGHT - GroundHeight

\* line 173
GroundY == CANVAS_HEIGHT - GroundHeight - BIRD_RADIUS

\* a ceiling test on the bird's centre
CeilingHitAtCentre(y) == y <= 0

\* line 176
CeilingHit(y) == y - BIRD_RADIUS <= 0

\* a bonk that clamps the position and keeps the velocity
BonkKeepingVelocity(y, v) ==
    IF CeilingHit(y) THEN [y |-> BIRD_RADIUS, velocity |-> v]
    ELSE [y |-> y, velocity |-> v]

\* lines 176-179: the bonk, on position y and velocity v
Bonk(y, v) ==
    IF CeilingHit(y) THEN [y |-> BIRD_RADIUS, velocity |-> 0]
    ELSE [y |-> y, velocity |-> v]

\* lines 120-181: one PLAYING tick from bird b, pipes ps, frame f, score sc, with
\* random draw k.  The result holds the refs after the tick and the scoreRef
\* values gameOver() was called with, in call order.
PlayingTick(b, ps, f, sc, k) ==
    LET v1 == b.velocity + GRAVITY
        y1 == b.y + v1
        spawned == IF SpawnDue(f) THEN Append(ps, NewPipe(k)) ELSE ps
        walk == ForEachPipe(spawned, 1, y1, [pipes |-> <<>>, scoreRef |-> sc, calls |-> <<>>])
        ground == GroundHit(y1)
        y2 == IF ground THEN GroundY ELSE y1
        calls == IF ground THEN Append(walk.calls, walk.scoreRef) ELSE walk.calls
        bonked == Bonk(y2, v1)
    IN [bird |-> [y |-> bonked.y,
                  velocity |-> bonked.velocity,
                  rotation |-> Rotation(v1)],
        pipes |-> SelectSeq(walk.pipes, OnScreen),
        frame |-> f + 1,
        scoreRef |-> walk.scoreRef,
        calls |-> calls,
        pushes |-> Len(spawned) - Len(ps)]


(* ---- the component's callbacks ---- *)

\* a reset that forgets to clear the obstacle list
resetGameKeepingPipes ==
    /\ birdRef' = InitialBird
    /\ pipesRef' = pipesRef
    /\ frameCountRef' = 0
    /\ scoreRef' = 0
    /\ score' = 0
    /\ aiFeedback' = ""

\* lines 39-46, resetGame
resetGame ==
    /\ birdRef' = InitialBird
    /\ pipesRef' = <<>>
    /\ frameCountRef' = 0
    /\ scoreRef' = 0
    /\ score' = 0
    /\ aiFeedback' = ""

\* lines 48-51, startGame
startGame ==
    /\ resetGame
    /\ gameState' = "PLAYING"
    /\ roundTicks' = 0
    /\ spawnCount' = 0
    /\ sinceSpawn' = sinceSpawn

\* line 70: jump() returns without restarting
RestartBlocked(gs, loading) == gs = "GAME_OVER" /\ loading

\* the impulse requested by the restart from GAME_OVER too
RequestsImpulseAlways(gs) == TRUE

\* lines 71-79: only the START branch requests the frame callback that sets
\* velocity = JUMP_STRENGTH
RequestsImpulse(gs) == gs = "START"

\* lines 55-57 over the gameOver() calls of one tick: every call compares with
\* the highScore of the render that created the callback (hs), the last
\* setHighScore wins
RECURSIVE HighScoreAfter(_, _, _, _)
HighScoreAfter(calls, i, hs, current) ==
    IF i > Len(calls) THEN current
    ELSE HighScoreAfter(calls, i + 1, hs, IF calls[i] > hs THEN calls[i] ELSE current)

\* line 61: the requests the gameOver() calls of one tick leave in flight
NewRequests(calls) ==
    { [id |-> feedbackCalls + i, score |-> calls[i], round |-> roundsFinished + 1] :
        i \in DOMAIN calls }

\* lines 53-64, gameOver, called once for each element of calls during one tick.
\* Without an API key getGameFeedback returns before anything is awaited from
\* the network, so the continuations run as microtasks of the same task.
gameOver(calls, finalScore) ==
    /\ gameState' = "GAME_OVER"
    /\ highScore' = HighScoreAfter(calls, 1, highScore, highScore)
    /\ IF apiKey = ""
       THEN /\ aiFeedback' = getGameFeedback(calls[Len(calls)], apiKey, "text")
            /\ loadingAi' = FALSE
            /\ pending' = pending
            /\ promise' = Settled(calls[Len(calls)], apiKey, "text", roundsFinished + 1)
            /\ serviceCalls' = serviceCalls
       ELSE /\ aiFeedback' = aiFeedback
            /\ loadingAi' = TRUE
            /\ pending' = pending \cup NewRequests(calls)
            /\ promise' = promise
            /\ serviceCalls' = serviceCalls + Len(calls)
    /\ feedbackCalls' = feedbackCalls + Len(calls)
    /\ roundsFinished' = roundsFinished + 1
    /\ bestFinal' = Max(bestFinal, finalScore)

\* the update logic guarded by "not START" instead of "PLAYING"
UpdatesPhysicsUnlessStart(gs) == gs # "START"

\* a loop that skips the update only once the game is over
UpdatesPhysicsUnlessGameOver(gs) == gs # "GAME_OVER"

\* line 120: the branch of the loop that updates the physics
UpdatesPhysics(gs) == gs = "PLAYING"

\* frames the model simulates in the current round
FrameCap == IF roundsFinished = 0 THEN MaxFrame ELSE MaxReplayFrame

\* lines 66-81, jump, as called by handleKeyDown, handleTouch and handleMouseDown
\* (listeners of lines 84-110, removed at unmount).  A restart changes gameState,
\* so the commit that follows the handler re-runs the loop effect.
Jump ==
    /\ mounted
    /\ UNCHANGED <<highScore, loadingAi, pending, apiKey, history, service, mounted>>
    /\ IF gameState = "PLAYING"
       THEN /\ frameCountRef % InputPeriod = 0
            /\ birdRef' = [birdRef EXCEPT !.velocity = JUMP_STRENGTH]
            /\ UNCHANGED <<gameState, score, aiFeedback, pipesRef, frameCountRef,
                           scoreRef, impulse, counts, rafQueue>>
       ELSE IF RestartBlocked(gameState, loadingAi)
       THEN UNCHANGED <<gameState, score, aiFeedback, refs, impulse, counts, rafQueue>>
       ELSE /\ roundsFinished < MaxRounds
            /\ startGame
            /\ impulse' = RequestsImpulse(gameState)
            /\ rafQueue' = EffectRerun(IF RequestsImpulse(gameState)
                                       THEN Request(rafQueue, ImpulseCallback)
                                       ELSE rafQueue,
                                       "PLAYING")

\* lines 363-368, the PLAY AGAIN button (rendered in GAME_OVER only)
PlayAgain ==
    /\ mounted
    /\ gameState = "GAME_OVER"
    /\ roundsFinished < MaxRounds
    /\ startGame
    /\ rafQueue' = EffectRerun(rafQueue, "PLAYING")
    /\ UNCHANGED <<highScore, loadingAi, pending, apiKey, history, service, impulse,
                   mounted>>

\* the refs before the callbacks of a frame run
FrameStart ==
    [bird |-> birdRef, pipes |-> pipesRef, frame |-> frameCountRef, scoreRef |-> scoreRef,
     calls |-> <<>>, pushes |-> 0, ticks |-> 0, last |-> "NONE", queue |-> <<>>]

\* The callbacks of one display frame, from callback i of queue on, in request
\* order: the impulse of line 77, and loop (lines 118-289) under the gameState
\* of its closure, which ends by requesting itself again (line 288).  k is the
\* random draw and off the bobbing offset of the frame.
RECURSIVE RunCallbacks(_, _, _, _, _)
RunCallbacks(queue, i, acc, k, off) ==
    IF i > Len(queue) THEN acc
    ELSE IF queue[i].fn = "impulse"
    THEN RunCallbacks(queue, i + 1,
                      [acc EXCEPT !.bird = [acc.bird EXCEPT !.velocity = JUMP_STRENGTH]],
                      k, off)
    ELSE LET gs == queue[i].gs
             again == Request(acc.queue, LoopCallback(gs))
         IN IF UpdatesPhysics(gs)
            THEN LET t == PlayingTick(acc.bird, acc.pipes, acc.frame, acc.scoreRef, k)
                 IN RunCallbacks(queue, i + 1,
                        [bird |-> t.bird, pipes |-> t.pipes, frame |-> t.frame,
                         scoreRef |-> t.scoreRef, calls |-> acc.calls \o t.calls,
                         pushes |-> acc.pushes + t.pushes, ticks |-> acc.ticks + 1,
                         last |-> gs, queue |-> again],
                        k, off)
            ELSE IF gs = "START"
            THEN RunCallbacks(queue, i + 1,
                        [acc EXCEPT !.bird = [acc.bird EXCEPT
                                                 !.y = (CANVAS_HEIGHT \div 2) + off,
                                                 !.rotation = 0],
                                    !.last = gs, !.queue = again],
                        k, off)
            ELSE RunCallbacks(queue, i + 1, [acc EXCEPT !.last = gs, !.queue = again],
                              k, off)

\* some pending loop would update the physics
TickPending == \E i \in DOMAIN rafQueue :
                  rafQueue[i].fn = "loop" /\ UpdatesPhysics(rafQueue[i].gs)

\* one display frame with random draw k and bobbing offset off, and the commit
\* of the state it set: the loop effect re-runs when gameState or gameOver
\* (that is, highScore) changed
FrameWith(k, off) ==
    LET r == RunCallbacks(rafQueue, 1, FrameStart, k, off)
    IN /\ impulse' = FALSE
       /\ lastTick' = IF r.last = "NONE" THEN lastTick ELSE r.last
       /\ UNCHANGED <<apiKey, mounted>>
       /\ birdRef' = r.bird
       /\ pipesRef' = r.pipes
       /\ frameCountRef' = r.frame
       /\ scoreRef' = r.scoreRef
       /\ roundTicks' = roundTicks + r.ticks
       /\ spawnCount' = spawnCount + r.pushes
       /\ sinceSpawn' = IF r.ticks = 0 THEN sinceSpawn
                        ELSE IF r.pushes > 0 THEN 1
                        ELSE Min(sinceSpawn + 1, PIPE_SPAWN_RATE)
       /\ score' = IF r.scoreRef # scoreRef THEN r.scoreRef ELSE score
       /\ IF r.calls # <<>>
          THEN gameOver(r.calls, r.scoreRef)
          ELSE UNCHANGED <<gameState, highScore, aiFeedback, loadingAi, pending,
                           feedbackCalls, roundsFinished, bestFinal, service>>
       /\ rafQueue' = IF mounted /\ (gameState' # gameState \/ highScore' # highScore)
                      THEN EffectRerun(r.queue, gameState')
                      ELSE r.queue

\* One display frame: the browser runs the callbacks requested so far.
Frame ==
    /\ rafQueue # <<>>
    /\ IF TickPending
       THEN /\ frameCountRef < FrameCap
            /\ \E k \in RandomDraws : FrameWith(k, 0)
       ELSE \E off \in BobOffsets : FrameWith(0, off)

\* the component is unmounted: the cleanup of lines 293-297 runs and no effect
\* runs again
Unmount ==
    /\ mounted
    /\ mounted' = FALSE
    /\ rafQueue' = Cancel(rafQueue)
    /\ UNCHANGED <<gameState, score, highScore, aiFeedback, loadingAi, refs, impulse,
                   pending, apiKey, history, service, counts>>

\* lines 61-63: a suspended gameOver() resumes when its promise settles: with
\* the service's answer, or, were the promise rejected, by throwing before
\* setAiFeedback and setLoadingAi.  The setters of an unmounted component do
\* nothing.
FeedbackResolve ==
    \E r \in pending, outcome \in ServiceOutcomes :
        /\ promise' = Settled(r.score, apiKey, outcome, r.round)
        /\ IF promise'.state = "fulfilled" /\ mounted
           THEN /\ aiFeedback' = promise'.value
                /\ loadingAi' = FALSE
           ELSE UNCHANGED <<aiFeedback, loadingAi>>
        /\ pending' = pending \ {r}
        /\ UNCHANGED <<gameState, score, highScore, refs, impulse, apiKey, history,
                       serviceCalls, counts, schedule>>

\* getGameFeedback called on its own with score s
CallFeedback ==
    \E s \in 0..MaxScore, outcome \in ServiceOutcomes :
        /\ feedbackCalls < MaxCalls
        /\ feedbackCalls' = feedbackCalls + 1
        /\ serviceCalls' = serviceCalls + (IF CallsService(apiKey) THEN 1 ELSE 0)
        /\ promise' = Settled(s, apiKey, outcome, 0)
        /\ UNCHANGED <<gameState, score, highScore, aiFeedback, loadingAi, refs, impulse,
                       pending, apiKey, roundsFinished, bestFinal, lastTick, counts,
                       schedule>>

NextFeedback == CallFeedback

\* the service module alone: the page is loaded and getGameFeedback is called
\* with scores drawn from 0..MaxScore
SpecFeedback == Init /\ [][NextFeedback]_vars

Next == Jump \/ PlayAgain \/ Frame \/ FeedbackResolve

Spec == Init /\ [][Next]_vars

NextLoop == Next \/ Unmount

\* the game with the teardown of the component
SpecLoop == Init /\ [][NextLoop]_vars

\* the game when every commentary call returns: a pending await of line 61 is
\* resumed sooner or later
FairSpec == Spec /\ WF_vars(FeedbackResolve)

\* x of the leading pipe, topHeight and bird y a tick may be entered with:
\* values around the edges of the collision test of lines 147-155
TickPipeX == {255, 256, 935, 1214, 1215}
TickTopHeight == {2000}
TickBirdY == {996, 2175, 2176, 2796, 3416, 3417}

\* a round under way, about to run the tick in which the leading pipe reaches
\* the bird; the pipe spawned PIPE_SPAWN_RATE ticks later follows it
InitTick ==
    /\ gameState = "PLAYING"
    /\ score = 0
    /\ highScore = 0
    /\ aiFeedback = ""
    /\ loadingAi = FALSE
    /\ \E y \in TickBirdY : birdRef = [y |-> y, velocity |-> 0, rotation |-> Rotation(0)]
    /\ \E x \in TickPipeX, h \in TickTopHeight :
          pipesRef = <<[x |-> x, topHeight |-> h, passed |-> FALSE],
                       [x |-> x + PIPE_SPAWN_RATE * PIPE_SPEED, topHeight |-> minPipeHeight,
                        passed |-> FALSE]>>
    /\ frameCountRef = 2 * PIPE_SPAWN_RATE + 2
    /\ scoreRef = 0
    /\ impulse = FALSE
    /\ pending = {}
    /\ apiKey \in {"", "key"}
    /\ feedbackCalls = 0
    /\ roundsFinished = 0
    /\ bestFinal = 0
    /\ lastTick = "PLAYING"
    /\ rafQueue = <<LoopCallback("PLAYING")>>
    /\ mounted = TRUE
    /\ roundTicks = 2 * PIPE_SPAWN_RATE + 2
    /\ spawnCount = 3
    /\ sinceSpawn = 2
    /\ serviceCalls = 0
    /\ promise = NoPromise

\* the game from page load, and from the ticks of InitTick
SpecTick == (Init \/ InitTick) /\ [][Next]_vars

TypeOK ==
    /\ gameState \in {"START", "PLAYING", "GAME_OVER"}
    /\ score \in Nat /\ highScore \in Nat /\ scoreRef \in Nat /\ frameCountRef \in Nat
    /\ loadingAi \in BOOLEAN /\ impulse \in BOOLEAN
    /\ birdRef.y \in Int /\ birdRef.velocity \in Int /\ birdRef.rotation \in Int
    /\ mounted \in BOOLEAN
    /\ \A i \in DOMAIN rafQueue : rafQueue[i].fn \in {"loop", "impulse"}
    /\ impulse <=> \E i \in DOMAIN rafQueue : rafQueue[i].fn = "impulse"
    /\ roundTicks \in Nat /\ spawnCount \in Nat /\ sinceSpawn \in 1..PIPE_SPAWN_RATE
    /\ serviceCalls \in Nat /\ promise.state \in {"none", "fulfilled", "rejected"}


(* ======================= the claims ======================= *)

\* C1 (as claimed): while a commentary request issued by gameOver is still in
\* flight, no step taken in GAME_OVER leaves GAME_OVER or changes the bird, the
\* obstacles or the score, whichever input path attempts the restart.
C1_NoRestartInFlight ==
    [][(gameState = "GAME_OVER" /\ pending # {})
          => (gameState' = "GAME_OVER"
              /\ UNCHANGED <<birdRef, pipesRef, scoreRef, score>>)]_vars

\* C2 (as claimed): the number of getGameFeedback calls always equals the
\* number of finished rounds (a second trigger in the same tick is a no-op).
C2_OneRequestPerRound == feedbackCalls = roundsFinished

\* C3 (as claimed): in every GAME_OVER state the best score is at least the
\* round's final score counter and equals the greatest final score of the
\* rounds finished so far.
C3_BestScoreRecorded ==
    gameState = "GAME_OVER" => (highScore >= scoreRef /\ highScore = bestFinal)


\* a step that is the start/restart transition
Restarts == gameState # "PLAYING" /\ gameState' = "PLAYING"

\* a step that is one PLAYING tick of the loop
TicksPlaying == gameState = "PLAYING" /\ frameCountRef' = frameCountRef + 1

\* the velocity a tick starts from: the pending impulse callback runs first
VelocityBeforeGravity == IF impulse THEN JUMP_STRENGTH ELSE birdRef.velocity

\* the bird's y after the integration of the coming tick
IntegratedY == birdRef.y + VelocityBeforeGravity + GRAVITY

\* the state a new round's first tick starts from
FreshRound ==
    /\ birdRef.y = CANVAS_HEIGHT \div 2
    /\ pipesRef = <<>>
    /\ scoreRef = 0
    /\ frameCountRef = 0

\* C4 (as claimed): after the start from START and after a restart from
\* GAME_OVER alike, the first physics step begins from y = CANVAS_HEIGHT/2, no
\* obstacles, score 0, frame 0 and velocity = JUMP_STRENGTH before gravity.
C4_RestartLikeStart ==
    (gameState = "PLAYING" /\ frameCountRef = 0)
        => (FreshRound /\ VelocityBeforeGravity = JUMP_STRENGTH)

\* C4 (amended): both transitions reset to y = CANVAS_HEIGHT/2, no obstacles,
\* score 0 and frame 0, but only the start from START requests the upward
\* impulse; the restart from GAME_OVER leaves velocity 0 with no impulse
\* pending.  The first tick of a round adds gravity to the pending impulse, or
\* else to the velocity the bird has.
C4_RestartWithoutImpulse ==
    [][/\ (gameState = "START" /\ gameState' = "PLAYING")
            => (FreshRound' /\ impulse' /\ VelocityBeforeGravity' = JUMP_STRENGTH)
       /\ (gameState = "GAME_OVER" /\ gameState' = "PLAYING")
            => (FreshRound' /\ ~impulse' /\ VelocityBeforeGravity' = 0)
       /\ (TicksPlaying /\ frameCountRef = 0)
            => /\ birdRef'.velocity = VelocityBeforeGravity + GRAVITY
               /\ birdRef'.y = (CANVAS_HEIGHT \div 2) + VelocityBeforeGravity + GRAVITY]_vars

\* C4 witness: the first tick of a round restarted from GAME_OVER has run from
\* velocity 0
C4_Witness ==
    /\ gameState = "PLAYING"
    /\ roundsFinished >= 1
    /\ frameCountRef = 1
    /\ birdRef.velocity = GRAVITY
    /\ birdRef.y = (CANVAS_HEIGHT \div 2) + GRAVITY

\* C5: once the round has ended, every step taken before the next restart
\* (every tick included) leaves the bird, the obstacles, the score and the
\* frame counter unchanged.
C5_FrozenAfterGameOver ==
    [][gameState = "GAME_OVER"
          => (Restarts \/ UNCHANGED <<birdRef, pipesRef, scoreRef, score, frameCountRef>>)]_vars

\* C5 witness: a tick has run under GAME_OVER
C5_Witness ==
    /\ gameState = "GAME_OVER"
    /\ lastTick = "GAME_OVER"
    /\ frameCountRef > 0

\* C7: the start/restart transition, from START or from GAME_OVER, always yields
\* y = CANVAS_HEIGHT/2, velocity 0, rotation 0, no obstacles, score 0, frame
\* counter 0 and empty commentary, whatever the state before.
C7_IdempotentReset ==
    [][Restarts
          => /\ birdRef' = [y |-> 3000, velocity |-> 0, rotation |-> 0]
             /\ 3000 * 2 = CANVAS_HEIGHT
             /\ pipesRef' = <<>>
             /\ scoreRef' = 0
             /\ score' = 0
             /\ frameCountRef' = 0
             /\ aiFeedback' = ""]_vars

\* C7 witness: a round restarted after a round that had obstacles and ended with
\* a score of at least 1
C7_Witness ==
    /\ gameState = "PLAYING"
    /\ frameCountRef = 0
    /\ roundsFinished >= 1
    /\ bestFinal >= 1
    /\ pipesRef = <<>>


\* the listed obstacles that a step flips from not passed to passed (an obstacle
\* is followed through a tick by its x, which the tick lowers by PIPE_SPEED)
Flipped ==
    { i \in DOMAIN pipesRef :
        /\ ~pipesRef[i].passed
        /\ \E j \in DOMAIN pipesRef' :
              /\ pipesRef'[j].x = pipesRef[i].x - PIPE_SPEED
              /\ pipesRef'[j].passed }

\* C6: the score is never negative; a step either is the start/restart reset,
\* which zeroes it, or raises it by exactly the number of obstacles whose passed
\* flag it flips from false to true; a flag is set exactly when the obstacle's
\* trailing edge is left of BIRD_X (so on the first such tick) and is never
\* cleared again; the score on display is the score counter.
C6_ScoreCountsPasses ==
    /\ [](/\ scoreRef >= 0
          /\ score = scoreRef
          /\ \A i \in DOMAIN pipesRef :
                pipesRef[i].passed <=> (pipesRef[i].x + 600 < 1000))
    /\ [][/\ Restarts => scoreRef' = 0
          /\ ~Restarts => /\ scoreRef' = scoreRef + Cardinality(Flipped)
                          /\ scoreRef' >= scoreRef
          /\ scoreRef' # scoreRef => (Restarts \/ TicksPlaying)
          /\ \A i \in DOMAIN pipesRef, j \in DOMAIN pipesRef' :
                (pipesRef[i].passed /\ pipesRef'[j].x = pipesRef[i].x - PIPE_SPEED
                    /\ ~Restarts)
                    => pipesRef'[j].passed]_vars

\* C6 witness: an obstacle has been passed and scored, and a later tick has run
\* with the flag set
C6_Witness ==
    /\ gameState = "PLAYING"
    /\ scoreRef = 1
    /\ \E i \in DOMAIN pipesRef : pipesRef[i].passed /\ pipesRef[i].x + 600 < 1000 - 35

\* C8: every listed obstacle has a gap-top height that is a whole number of
\* pixels with 50 <= h <= 290 = CANVAS_HEIGHT - PIPE_GAP - 50 - 100, so that
\* h + PIPE_GAP + 40 <= CANVAS_HEIGHT (the gap ends above the ground line); and
\* no tick changes the height of an obstacle.
C8_GapFits ==
    /\ [](\A i \in DOMAIN pipesRef :
            LET h == pipesRef[i].topHeight
            IN /\ h % 10 = 0
               /\ 500 <= h /\ h <= 2900
               /\ 2900 = CANVAS_HEIGHT - PIPE_GAP - 500 - 1000
               /\ h + PIPE_GAP + 400 <= CANVAS_HEIGHT
               /\ h + PIPE_GAP <= CANVAS_HEIGHT - 400)
    /\ [][\A i \in DOMAIN pipesRef, j \in DOMAIN pipesRef' :
            (TicksPlaying /\ pipesRef'[j].x = pipesRef[i].x - PIPE_SPEED)
                => pipesRef'[j].topHeight = pipesRef[i].topHeight]_vars

\* C8 witness: obstacles with the least and with the greatest height are listed
\* and have been moved by ticks
C8_Witness ==
    /\ \E i \in DOMAIN pipesRef : pipesRef[i].topHeight = 2900 /\ pipesRef[i].x < 4000
    /\ \E i \in DOMAIN pipesRef : pipesRef[i].topHeight = 500

\* C9: a PLAYING tick whose integrated y has y + BIRD_RADIUS >= CANVAS_HEIGHT - 40
\* ends with y = CANVAS_HEIGHT - 40 - BIRD_RADIUS exactly and in GAME_OVER.
C9_GroundClamp ==
    [][(TicksPlaying /\ IntegratedY + 180 >= 6000 - 400)
          => (birdRef'.y = 6000 - 400 - 180 /\ gameState' = "GAME_OVER")]_vars

\* C9 witness: a round ended on the ground
C9_Witness ==
    /\ gameState = "GAME_OVER"
    /\ lastTick = "PLAYING"
    /\ birdRef.y = 5420
    /\ birdRef.velocity > 0

\* the coming tick detects a pipe collision at the integrated y
HitsPipe ==
    \E i \in DOMAIN pipesRef :
        LET x == pipesRef[i].x - PIPE_SPEED
            h == pipesRef[i].topHeight
        IN /\ 1000 + 180 > x
           /\ 1000 - 180 < x + 600
           /\ (IntegratedY - 180 < h \/ IntegratedY + 180 > h + 1600)

\* C10 (as claimed): a PLAYING tick whose integrated y has y - BIRD_RADIUS <= 0
\* ends with y = BIRD_RADIUS, velocity 0 and the state still PLAYING.
C10_CeilingBonk ==
    [][(TicksPlaying /\ IntegratedY - 180 <= 0)
          => (birdRef'.y = 180 /\ birdRef'.velocity = 0 /\ gameState' = "PLAYING")]_vars

\* C10 (amended): such a tick ends with y = BIRD_RADIUS and velocity 0, and the
\* state stays PLAYING exactly when the tick detects no pipe collision (the
\* collision test uses the integrated, unclamped y, so a bird at the ceiling
\* above an overlapping pipe ends the round).
C10_CeilingBonkUnlessPipe ==
    [][(TicksPlaying /\ IntegratedY - 180 <= 0)
          => /\ birdRef'.y = 180
             /\ birdRef'.velocity = 0
             /\ (gameState' = "PLAYING" <=> ~HitsPipe)
             /\ (gameState' # "PLAYING" => gameState' = "GAME_OVER")]_vars

\* C10 witness: the bird has bonked and the round goes on
C10_Witness ==
    /\ gameState = "PLAYING"
    /\ frameCountRef > 0
    /\ birdRef.y = 180
    /\ birdRef.velocity = 0
    /\ birdRef.rotation < 0


\* C11: getGameFeedback never rejects and never returns an empty string, for
\* any score: without an API key it returns the fixed missing-key message and
\* the service is not called; when the service call throws it returns the
\* fixed error message; when the response text is empty it returns the fixed
\* "No comment."; none of the three depends on the score.
C11_FeedbackNeverFails ==
    /\ promise.state # "rejected"
    /\ (apiKey = "" => serviceCalls = 0)
    /\ promise.state = "fulfilled" =>
          /\ promise.value # ""
          /\ apiKey = "" => promise.value = "API Key missing. I can't judge you properly."
          /\ (apiKey # "" /\ promise.outcome = "throws")
                => promise.value = "I'm speechless (API Error)."
          /\ (apiKey # "" /\ promise.outcome = "empty") => promise.value = "No comment."

\* C11 witness: with a key, a call for a score of the highest tier was answered
\* with an empty text
C11_Witness ==
    /\ apiKey # ""
    /\ promise.state = "fulfilled"
    /\ promise.score > 20
    /\ promise.outcome = "empty"
    /\ serviceCalls = 2

\* the coming tick detects ground contact at the integrated y
HitsGround == IntegratedY + 180 >= 6000 - 400

\* C12: the game state changes only along START -> PLAYING,
\* PLAYING -> GAME_OVER and GAME_OVER -> PLAYING; START is never re-entered;
\* GAME_OVER is entered only from PLAYING, by a tick that detects a collision
\* or ground contact; in START there are no obstacles, the score does not
\* change and no collision check ends the game.
C12_Transitions ==
    [][/\ gameState' # gameState
            => <<gameState, gameState'>> \in {<<"START", "PLAYING">>,
                                              <<"PLAYING", "GAME_OVER">>,
                                              <<"GAME_OVER", "PLAYING">>}
       /\ (gameState' = "GAME_OVER" /\ gameState # "GAME_OVER")
            => (TicksPlaying /\ (HitsPipe \/ HitsGround))
       /\ gameState = "START"
            => /\ pipesRef = <<>> /\ pipesRef' = <<>>
               /\ score = 0 /\ score' = 0 /\ scoreRef = 0 /\ scoreRef' = 0
               /\ feedbackCalls' = feedbackCalls
               /\ frameCountRef' = frameCountRef]_vars

\* C12 witness: all three transitions were taken: a second round, begun from
\* GAME_OVER, has ended on the ground
C12_Witness ==
    /\ gameState = "GAME_OVER"
    /\ lastTick = "PLAYING"
    /\ roundsFinished = 2
    /\ birdRef.y = 5420

\* C13: a PLAYING tick ends the game if and only if, with the integrated y
\* and each pipe's advanced x, some pipe has BIRD_X + BIRD_RADIUS > x,
\* BIRD_X - BIRD_RADIUS < x + PIPE_WIDTH and (y - BIRD_RADIUS < topHeight or
\* y + BIRD_RADIUS > topHeight + PIPE_GAP), or y + BIRD_RADIUS >=
\* CANVAS_HEIGHT - 40.  A pipe at x = 90 px with topHeight 200 px ends the game
\* for a bird at y = 100 px and not for a bird at y = 280 px.
C13_KillsIffHit ==
    [][TicksPlaying =>
          /\ gameState' = "GAME_OVER" <=> (HitsPipe \/ HitsGround)
          /\ (pipesRef # <<>> /\ pipesRef[1].x - 35 = 900 /\ pipesRef[1].topHeight = 2000)
                => /\ IntegratedY = 1000 => gameState' = "GAME_OVER"
                   /\ IntegratedY = 2800 => gameState' = "PLAYING"]_vars

\* C13 witness: the tick that brought a pipe with topHeight 200 px to
\* x = 90 px has ended the game for the bird at y = 100 px
C13_Witness ==
    /\ gameState = "GAME_OVER"
    /\ lastTick = "PLAYING"
    /\ pipesRef # <<>>
    /\ pipesRef[1].x = 900
    /\ pipesRef[1].topHeight = 2000
    /\ birdRef.y = 1000

\* the same pipe has let the bird at y = 280 px through
C13_PassesGap ==
    /\ gameState = "PLAYING"
    /\ lastTick = "PLAYING"
    /\ pipesRef # <<>>
    /\ pipesRef[1].x = 900
    /\ pipesRef[1].topHeight = 2000
    /\ birdRef.y = 2800

\* a step that is one PLAYING tick of the loop, told by the tick count
RunsTick == roundTicks' = roundTicks + 1

\* the tick of this step pushed a pipe
Pushes == spawnCount' = spawnCount + 1

\* what C14 says of one tick, the spacing of the pushes apart
SpawnsOnMultiples ==
    /\ gameState = "PLAYING"
    /\ frameCountRef = roundTicks
    /\ frameCountRef' = frameCountRef + 1
    /\ Pushes <=> frameCountRef % 100 = 0
    /\ ~Pushes => spawnCount' = spawnCount
    /\ roundTicks = 0 => Pushes
    /\ Pushes => /\ pipesRef' # <<>>
                 /\ pipesRef'[Len(pipesRef')].x = 8000 - 35
                 /\ ~pipesRef'[Len(pipesRef')].passed

\* C14 (as claimed): pipes are pushed exactly on the PLAYING ticks whose
\* frame counter is a multiple of PIPE_SPAWN_RATE, the first tick of every
\* round included, one per such tick, at x = CANVAS_WIDTH and not passed; the
\* frame counter grows by 1 per PLAYING tick; and any PIPE_SPAWN_RATE
\* consecutive PLAYING ticks hold at most one push.
C14_SpawnEveryRate ==
    [][RunsTick => (SpawnsOnMultiples /\ (Pushes => sinceSpawn = 100))]_vars

\* C14 (amended): the same, with at most one push in any PIPE_SPAWN_RATE
\* consecutive PLAYING ticks of ONE round: the first tick of a round pushes a
\* pipe however few ticks ago the round before pushed its last one.
C14_SpawnEveryRateInRound ==
    [][RunsTick => (SpawnsOnMultiples
                    /\ (Pushes => (roundTicks = 0 \/ sinceSpawn = 100)))]_vars

\* C14 witness: the first tick of a second round has pushed a pipe fewer than
\* PIPE_SPAWN_RATE ticks after the last push of the first round
C14_Witness ==
    /\ gameState = "PLAYING"
    /\ roundsFinished = 1
    /\ roundTicks = 1
    /\ spawnCount = 1
    /\ Len(pipesRef) = 1
    /\ pipesRef[1].x = 8000 - 35

\* tick 100 of a round has pushed the round's second pipe
C14_SecondPush ==
    /\ roundTicks = 101
    /\ spawnCount = 2
    /\ Len(pipesRef) = 2
    /\ pipesRef[2].x = 8000 - 35

\* the pipes of the list are in strictly increasing x
IncreasingX(pipes) ==
    \A i, j \in DOMAIN pipes : i < j => pipes[i].x < pipes[j].x

\* C15: at the end of every PLAYING tick the pipe list is in spawn order
\* with strictly increasing x from front to back, every listed pipe has
\* -PIPE_WIDTH < x < CANVAS_WIDTH, and a pipe leaves the list on exactly the
\* first tick that brings its x to -PIPE_WIDTH or below, never earlier.
C15_OrderedAndPruned ==
    [][RunsTick =>
          /\ IncreasingX(pipesRef')
          /\ \A j \in DOMAIN pipesRef' : -600 < pipesRef'[j].x /\ pipesRef'[j].x < 8000
          /\ \A i \in DOMAIN pipesRef :
                /\ pipesRef[i].x - 35 <= -600
                      => ~\E j \in DOMAIN pipesRef' : pipesRef'[j].x = pipesRef[i].x - 35
                /\ pipesRef[i].x - 35 > -600
                      => /\ i - (Len(pipesRef) - Len(pipesRef')) - (spawnCount' - spawnCount)
                               \in DOMAIN pipesRef'
                         /\ pipesRef'[i - (Len(pipesRef) - Len(pipesRef'))
                                        - (spawnCount' - spawnCount)].x
                               = pipesRef[i].x - 35
          /\ spawnCount' = spawnCount + 1
                => pipesRef'[Len(pipesRef')].x = 8000 - 35]_vars

\* C15 witness: tick 245 of a round has removed the round's first pipe, at
\* x = -61 px, and left the second and third in order
C15_Witness ==
    /\ gameState = "PLAYING"
    /\ roundTicks = 246
    /\ spawnCount = 3
    /\ Len(pipesRef) = 2
    /\ pipesRef[1].x = 8000 - 35 * 146
    /\ pipesRef[2].x = 8000 - 35 * 46

\* C16 (as claimed): whenever the game is in GAME_OVER and the commentary is
\* shown as not loading, the text on display is the response to the request
\* made for the final score of the round that just ended, never the response
\* to a request of an earlier round or for a superseded score.
C16_CommentaryOfThisRound ==
    (gameState = "GAME_OVER" /\ ~loadingAi)
        => /\ promise.state = "fulfilled"
           /\ promise.round = roundsFinished
           /\ promise.score = scoreRef
           /\ aiFeedback = promise.value

\* C17: at the end of every tick, in every game state, BIRD_RADIUS <= y <=
\* CANVAS_HEIGHT - 40 - BIRD_RADIUS and the rotation lies in [-PI/4, PI/4].
C17_BirdInField ==
    /\ 180 <= birdRef.y
    /\ birdRef.y <= 6000 - 400 - 180
    /\ -7854 <= birdRef.rotation
    /\ birdRef.rotation <= 7854

\* C17 witness: a tick has put the falling bird on the ground, its rotation
\* held at PI/4
C17_Witness ==
    /\ lastTick = "PLAYING"
    /\ gameState = "GAME_OVER"
    /\ birdRef.y = 5420
    /\ birdRef.velocity > 79
    /\ birdRef.rotation = 7854

\* a tick has put the rising bird back under the ceiling
C17_Bonked ==
    /\ lastTick = "PLAYING"
    /\ birdRef.y = 180
    /\ birdRef.velocity = 0
    /\ birdRef.rotation < 0

\* the listed pipes the bird has not passed
Unpassed(pipes) == {i \in DOMAIN pipes : ~pipes[i].passed}

\* C18: no pipe leaves the list unscored: every pipe removed by the filter has
\* passed = true, so at the end of every PLAYING tick the score equals the
\* number of pipes pushed in the current round minus the number of listed
\* pipes whose passed flag is still false.
C18_NoPipeUnscored ==
    [][RunsTick =>
          /\ \A i \in DOMAIN pipesRef :
                pipesRef[i].x - 35 <= -600 => pipesRef[i].passed
          /\ scoreRef' = spawnCount' - Cardinality(Unpassed(pipesRef'))
          /\ score' = scoreRef']_vars

\* C18 witness: a passed pipe has been removed, and of the three pipes pushed
\* the two listed ones are not passed: the score is 1
C18_Witness ==
    /\ gameState = "PLAYING"
    /\ roundTicks > 245
    /\ spawnCount = 3
    /\ Len(pipesRef) = 2
    /\ Cardinality(Unpassed(pipesRef)) = 2
    /\ scoreRef = 1
    /\ score = 1

\* a player input that restarts the game can be made
CanRestart == ENABLED (Jump /\ gameState' = "PLAYING")

\* C19: when every commentary call returns, after every PLAYING -> GAME_OVER
\* transition the loading flag becomes false with a non-empty commentary
\* set, and from then on a player input restarts the game: the game does not
\* stay in GAME_OVER with loading set forever.
C19_LoadingEnds ==
    /\ (gameState = "GAME_OVER" /\ loadingAi) ~> (~loadingAi /\ aiFeedback # "")
    /\ [](gameState = "GAME_OVER" /\ lastTick = "PLAYING" => (loadingAi \/ aiFeedback # ""))
    /\ []((gameState = "GAME_OVER" /\ ~loadingAi /\ roundsFinished < MaxRounds)
            => CanRestart)

\* C19 witness: the request of the round that just ended has been answered:
\* the game is over, not loading, with the answer on display
C19_Witness ==
    /\ gameState = "GAME_OVER"
    /\ apiKey # ""
    /\ pending = {}
    /\ promise.round = roundsFinished
    /\ ~loadingAi
    /\ aiFeedback # ""
    /\ roundsFinished < MaxRounds

\* the loop callbacks pending in a queue
Loops(queue) == {i \in DOMAIN queue : queue[i].fn = "loop"}

\* C20: at any time at most one loop callback is pending: each tick requests
\* exactly one successor, and every re-run of the loop effect (a change of
\* gameState or of gameOver, or the teardown) cancels the pending callback
\* before the new loop is requested, so the update logic runs at most once per
\* display frame.
C20_OneLoopPending ==
    [][/\ Cardinality(Loops(rafQueue)) <= 1
       /\ Cardinality(Loops(rafQueue')) <= 1
       /\ mounted' => \E i \in Loops(rafQueue') :
                         rafQueue'[i].gs = gameState' /\ rafQueue'[i].ref
       /\ ~mounted' => Loops(rafQueue') = {}
       /\ roundTicks' <= roundTicks + 1]_vars

\* C20 witness: the effect has re-run for START -> PLAYING, PLAYING ->
\* GAME_OVER with a new high score, and GAME_OVER -> PLAYING; one loop, of the
\* PLAYING render, is pending
C20_Witness ==
    /\ mounted
    /\ roundsFinished = 1
    /\ highScore > 0
    /\ gameState = "PLAYING"
    /\ roundTicks > 0
    /\ rafQueue = <<LoopCallback("PLAYING")>>

\* the teardown has cancelled the pending loop callback
C20_TornDown ==
    /\ ~mounted
    /\ gameState = "PLAYING"
    /\ rafQueue = <<ImpulseCallback>>

====
